---- MODULE Spec2Model ----
(***************************************************************************)
(* Verification development for the UserBot verification script            *)
(* (Tools/verificationScript.py): the five-stage pipeline                  *)
(* run_all_verifications / main, and the two text-scanning checks.         *)
(*                                                                         *)
(* Text is modelled as sequences of one-character strings, so that strip,  *)
(* `in`, startswith, endswith and count are computed as Python computes    *)
(* them.  External tools (dotnet build / dotnet test) are the environment: *)
(* each stage draws the outcome of its subprocess call from the outcomes   *)
(* subprocess.run can produce.                                             *)
(*                                                                         *)
(* The last part models the in-memory submission store of the MCP server   *)
(* (.vscode/server.py): submit_bot, get_submission, list_submissions,      *)
(* update_submission, delete_submission and get_submission_status.         *)
(***************************************************************************)
EXTENDS Integers, Sequences, FiniteSets, TLC

VARIABLES
    pc,        \* position of the process: see PcValues
    files,     \* the submission directory: one entry per path of Slots
    results,   \* run_all_verifications' results dict, in insertion order
    out,       \* what the checks printed: <<[check, msg, items]>>
    summary,   \* the lines of the VERIFICATION SUMMARY table
    verdict,   \* what run_all_verifications returned, or Unset
    exitCode,  \* <<the status given to sys.exit>>, or NoExit
    blocked,   \* the process waits in subprocess.run for a child that never exits
    userbotDir, \* USERBOT_DIR exists
    tempDir,   \* USERBOT_DIR/temp_perf_test exists on disk
    env,       \* what the external tools did in this run, in call order
    previous,  \* the runs of the script that have ended, oldest first
    db,        \* server.py: submissions_db, its values in insertion order
    now,       \* server.py: the clock that datetime.now() reads, in ticks
    calls,     \* server.py: the number of tool calls made so far
    call,      \* server.py: the last tool call, its name and arguments
    reply,     \* server.py: what the last tool call returned
    before     \* server.py: submissions_db as the last tool call found it

\* The variables of the verification script.
scriptVars ==
    <<pc, files, results, out, summary, verdict, exitCode, blocked,
      userbotDir, tempDir, env, previous>>

\* The variables of the submission server.
storeVars == <<db, now, calls, call, reply, before>>

vars ==
    <<pc, files, results, out, summary, verdict, exitCode, blocked,
      userbotDir, tempDir, env, previous, db, now, calls, call, reply,
      before>>

----------------------------------------------------------------------------
(* Bounds of the model *)

\* Most lines, over all files, of a directory handed to the two scans alone.
ScanMaxLines == 3

\* Most lines, over all files, of a directory handed to the whole pipeline.
PipeMaxLines == 1

----------------------------------------------------------------------------
(* Program constants *)

REQUIRED_COVERAGE_PERCENT == 50

MAX_EXECUTION_TIME_MS == 300

\* check_statement_endings: `compliance_rate >= 95.0`
COMPLIANCE_PERCENT == 95

\* check_statement_endings: `issues_found[:15]`
SHOWN_STATEMENT_ISSUES == 15

\* check_statement_endings: `stripped[:80]`
STATEMENT_SNIPPET == 80

\* check_double_semicolons: `issue['content'][:100]`
SEMICOLON_SNIPPET == 100

\* check_double_semicolons: `issues_found[:10]`
SHOWN_SEMICOLON_ISSUES == 10

\* check_test_coverage: `test_count >= 50`
MIN_TEST_COUNT == 50

\* check_execution_time: `test_count = 69`
ASSUMED_TEST_COUNT == 69

\* check_execution_time: `avg_time_ms / 5`
CALLS_PER_TEST == 5

\* exitCode before sys.exit is called; <<n>> once sys.exit(n) is.
NoExit == <<>>

Unset == "unset"

----------------------------------------------------------------------------
(* Python str operations on sequences of characters *)

Whitespace == {" ", "\t", "\n", "\r"}

Min(a, b) == IF a <= b THEN a ELSE b

\* s[:n]
Take(s, n) == SubSeq(s, 1, Min(n, Len(s)))

RECURSIVE LStrip(_)
LStrip(s) ==
    IF s # <<>> /\ Head(s) \in Whitespace THEN LStrip(Tail(s)) ELSE s

RECURSIVE RStrip(_)
RStrip(s) ==
    IF s # <<>> /\ s[Len(s)] \in Whitespace
    THEN RStrip(SubSeq(s, 1, Len(s) - 1))
    ELSE s

\* str.strip()
Strip(s) == RStrip(LStrip(s))

\* s.startswith(p)
StartsWith(s, p) == Len(p) <= Len(s) /\ SubSeq(s, 1, Len(p)) = p

EndsWithAtStart(s, p) == Len(p) <= Len(s) /\ SubSeq(s, 1, Len(p)) = p

\* s.endswith(p)
EndsWith(s, p) ==
    Len(p) <= Len(s) /\ SubSeq(s, Len(s) - Len(p) + 1, Len(s)) = p

\* p in s
Contains(s, p) ==
    \E i \in 1..(Len(s) - Len(p) + 1) : SubSeq(s, i, i + Len(p) - 1) = p

CountFirst(s, c) == IF \E i \in 1..Len(s) : s[i] = c THEN 1 ELSE 0

\* s.count(c) for a single character c
Count(s, c) == Cardinality({i \in 1..Len(s) : s[i] = c})

----------------------------------------------------------------------------
(* The submission directory *)

\* The .cs paths the directory may hold, in the order rglob lists them:
\* STRATEGICMIND_DIR first, TEST_DIR second (all_files = cs_files + test_files).
\* Paths under obj/ or bin/ are not part of the modelled directory.
\* path is the file relative to USERBOT_DIR (check_double_semicolons), shown the
\* file relative to its third ancestor (check_statement_endings).
Slots ==
    << [path |-> "UserBot.StrategicMind/Bot.cs",
        shown |-> "UserBot/UserBot.StrategicMind/Bot.cs",
        root |-> "src"],
       [path |-> "UserBot.StrategicMind.Tests/BotTests.cs",
        shown |-> "UserBot/UserBot.StrategicMind.Tests/BotTests.cs",
        root |-> "test"] >>

Absent == [state |-> "absent", lines |-> <<>>]

\* The path exists but open() or readlines() raises.
Unreadable == [state |-> "unreadable", lines |-> <<>>]

Readable(ls) == [state |-> "readable", lines |-> ls]

\* Lines of source text, without their line break.
LineOk == <<"x", ";", " ", "/", "/">>

LineBad == <<" ", "x", ";">>

LineStr == <<"s", "=", "\"", "a", "\"", ";">>

LineDouble == <<"x", ";", ";">>

LineBlank == <<" ">>

LineOpen == <<"/", "*">>

LineClose == <<"*", "/">>

LineComment == <<"/", "/", "x", ";">>

LineStar == <<"*", ";", ";">>

LineBrace == <<"}", ";">>

\* An empty block comment followed by the opening of another one.
LineReopen == <<"/", "*", "*", "/", "/", "*">>

\* A statement followed by a block comment that closes on the same line.
LineTrailing == <<"x", ";", "/", "*", "*", "/">>

LineBlockDouble == <<"/", "*", ";", ";", "*", "/">>

LineCommentDouble == <<"/", "/", ";", ";">>

ScanLines ==
    {LineOk, LineBad, LineStr, LineDouble, LineBlank, LineOpen, LineClose,
     LineComment, LineStar, LineBrace}

PipeLines == {LineOk, LineBad, LineDouble, LineStr}

\* The lines of the directories that hold comments.
CommentLines ==
    {LineOk, LineBad, LineDouble, LineOpen, LineClose, LineReopen,
     LineTrailing, LineBlockDouble, LineCommentDouble, LineStar}

\* The states of one path holding k lines drawn from cat.
FileStates(cat, k) ==
    (IF k = 0 THEN {Absent, Unreadable} ELSE {})
        \cup {Readable(ls) : ls \in [1..k -> cat]}

\* dir is a directory over Slots with at most maxTotal lines in all.
IsDirectory(dir, cat, maxTotal) ==
    \E k1 \in 0..maxTotal :
        \E k2 \in 0..(maxTotal - k1) :
            \E f1 \in FileStates(cat, k1), f2 \in FileStates(cat, k2) :
                dir = <<f1, f2>>

\* Path.rglob("*.cs") under one root: the slots that exist, in order.
RECURSIVE Rglob(_, _, _)
Rglob(dir, root, i) ==
    IF i > Len(Slots) THEN <<>>
    ELSE (IF Slots[i].root = root /\ dir[i].state # "absent"
          THEN <<i>> ELSE <<>>) \o Rglob(dir, root, i + 1)

----------------------------------------------------------------------------
(* check_double_semicolons *)

\* The issues of one file's lines from line n on.
RECURSIVE SemicolonIssues(_, _, _)
SemicolonIssues(slot, ls, n) ==
    IF n > Len(ls) THEN <<>>
    ELSE LET line == ls[n]
             stripped == Strip(line)
             flagged ==
                 /\ Contains(line, <<";", ";">>)
                 /\ ~StartsWith(stripped, <<"/", "/">>)
                 /\ ~StartsWith(stripped, <<"*">>)
         IN (IF flagged
             THEN << [file |-> Slots[slot].path, line |-> n,
                      content |-> stripped] >>
             ELSE <<>>) \o SemicolonIssues(slot, ls, n + 1)

\* The loop over cs_files: issues_found and the warnings printed, from the
\* k-th listed file on.
RECURSIVE ScanSemicolons(_, _, _)
ScanSemicolons(dir, listed, k) ==
    IF k > Len(listed) THEN [issues |-> <<>>, unread |-> <<>>]
    ELSE LET slot == listed[k]
             rest == ScanSemicolons(dir, listed, k + 1)
         IN IF dir[slot].state = "unreadable"
            THEN [issues |-> rest.issues,
                  unread |-> <<Slots[slot].path>> \o rest.unread]
            ELSE [issues |-> SemicolonIssues(slot, dir[slot].lines, 1)
                                 \o rest.issues,
                  unread |-> rest.unread]

----------------------------------------------------------------------------
(* check_statement_endings *)

\* issues_found.append({'file': ..., 'line': line_num, 'content': stripped[:80]})
IssueZeroBased(slot, n, stripped) ==
    [file |-> Slots[slot].shown, line |-> n - 1,
     content |-> Take(stripped, STATEMENT_SNIPPET)]

Issue(slot, n, stripped) ==
    [file |-> Slots[slot].shown, line |-> n,
     content |-> Take(stripped, STATEMENT_SNIPPET)]

\* One iteration of the loop over a file's lines.  acc holds total_statements,
\* correct_statements, issues_found and in_multiline_comment.
ScanLine(acc, slot, n, line) ==
    LET stripped == Strip(line)
        opened == IF Contains(stripped, <<"/", "*">>) THEN TRUE ELSE acc.inComment
        has_semicolon == Contains(stripped, <<";">>)
        is_brace_only ==
            stripped \in {<<"{">>, <<"}">>, <<"{", ";">>, <<"}", ";">>}
        is_property_or_method ==
            \/ Contains(stripped, <<"=", ">">>)
            \/ Contains(stripped, <<"g", "e", "t", ";">>)
            \/ Contains(stripped, <<"s", "e", "t", ";">>)
        is_for_loop == StartsWith(stripped, <<"f", "o", "r", " ", "(">>)
        is_linq_continuation == StartsWith(stripped, <<".">>)
        is_lambda ==
            StartsWith(stripped,
                <<"a", "s", "y", "n", "c", " ", "(", ")", " ", "=", ">">>)
        qualifies ==
            /\ has_semicolon \/ is_property_or_method
            /\ ~is_brace_only
            /\ ~is_for_loop
            /\ ~is_linq_continuation
            /\ ~is_lambda
    IN  IF stripped = <<>> THEN acc
        ELSE IF Contains(stripped, <<"*", "/">>)
             THEN [acc EXCEPT !.inComment = FALSE]
        ELSE IF opened THEN [acc EXCEPT !.inComment = TRUE]
        ELSE IF StartsWith(stripped, <<"/", "/", "/">>)
                \/ StartsWith(stripped, <<"/", "/">>) THEN acc
        ELSE IF StartsWith(stripped, <<"[">>) /\ EndsWith(stripped, <<"]">>)
             THEN acc
        ELSE IF ~qualifies THEN acc
        ELSE IF EndsWith(stripped, <<"/", "/">>)
             THEN [acc EXCEPT !.total = @ + 1, !.correct = @ + 1]
        ELSE IF Count(stripped, "\"") >= 2
             THEN [acc EXCEPT !.total = @ + 1]
        ELSE [acc EXCEPT !.total = @ + 1,
                         !.issues = Append(@, Issue(slot, n, stripped))]

\* The loop over one file's lines, from line n on.
RECURSIVE ScanFileLines(_, _, _, _)
ScanFileLines(acc, slot, ls, n) ==
    IF n > Len(ls) THEN acc
    ELSE ScanFileLines(ScanLine(acc, slot, n, ls[n]), slot, ls, n + 1)

RECURSIVE ScanStatementsLeaking(_, _, _, _)
ScanStatementsLeaking(acc, dir, listed, k) ==
    IF k > Len(listed) THEN acc
    ELSE LET slot == listed[k]
         IN IF dir[slot].state = "unreadable"
            THEN ScanStatementsLeaking(
                     [acc EXCEPT !.unread = Append(@, Slots[slot].path)],
                     dir, listed, k + 1)
            ELSE ScanStatementsLeaking(
                     ScanFileLines(acc, slot, dir[slot].lines, 1),
                     dir, listed, k + 1)

\* The loop over all_files, from the k-th listed file on.
RECURSIVE ScanStatements(_, _, _, _)
ScanStatements(acc, dir, listed, k) ==
    IF k > Len(listed) THEN acc
    ELSE LET slot == listed[k]
         IN IF dir[slot].state = "unreadable"
            THEN ScanStatements(
                     [acc EXCEPT !.unread = Append(@, Slots[slot].path)],
                     dir, listed, k + 1)
            ELSE ScanStatements(
                     ScanFileLines([acc EXCEPT !.inComment = FALSE],
                                   slot, dir[slot].lines, 1),
                     dir, listed, k + 1)

ScanStart ==
    [total |-> 0, correct |-> 0, issues |-> <<>>, inComment |-> FALSE,
     unread |-> <<>>]

\* all_files of check_statement_endings.
AllFiles(dir) == Rglob(dir, "src", 1) \o Rglob(dir, "test", 1)

StatementScan(dir) == ScanStatements(ScanStart, dir, AllFiles(dir), 1)

ComplianceStrictlyAbove(correct, total) ==
    100 * correct > COMPLIANCE_PERCENT * total

\* `(correct_statements / total_statements) * 100 >= 95.0`.  The float
\* quotient agrees with the exact comparison 100*correct >= 95*total for
\* every total up to 3000 (checked exhaustively against CPython).
CompliancePasses(correct, total) ==
    100 * correct >= COMPLIANCE_PERCENT * total

\* The value check_statement_endings returns.
StatementEndingsPassed(scan) ==
    scan.total = 0 \/ CompliancePasses(scan.correct, scan.total)

----------------------------------------------------------------------------
(* The printed report *)

\* One printed message of a check: which check, which message, the violations
\* listed under it and the number it states.
Entry(check, msg, items, n) ==
    [check |-> check, msg |-> msg, items |-> items, n |-> n]

\* print_warning("Could not read ..."), once per file that raised.
Warnings(check, unread) ==
    [i \in 1..Len(unread) |->
        Entry(check, "could_not_read",
              <<[file |-> unread[i], line |-> 0, content |-> <<>>]>>, 0)]

\* print(f"    {issue['content'][:100]}") for each issue shown.
ShownSemicolonIssues(issues) ==
    [i \in 1..Len(issues) |->
        [issues[i] EXCEPT !.content = Take(@, SEMICOLON_SNIPPET)]]

\* What check_double_semicolons prints after its loop.
SemicolonReport(scan) ==
    Warnings("double_semicolons", scan.unread)
        \o (IF scan.issues # <<>>
            THEN <<Entry("double_semicolons", "violations",
                         ShownSemicolonIssues(
                             Take(scan.issues, SHOWN_SEMICOLON_ISSUES)),
                         Len(scan.issues))>>
            ELSE <<Entry("double_semicolons", "success", <<>>, 0)>>)

\* `if issues_found:` ... `else:` of check_double_semicolons.
SemicolonsPassed(scan) == scan.issues = <<>>

\* What check_statement_endings prints after its loop.
StatementReport(scan) ==
    Warnings("statement_endings", scan.unread)
        \o (IF scan.total = 0
            THEN <<Entry("statement_endings", "no_statements", <<>>, 0)>>
            ELSE <<Entry("statement_endings", "total_statements", <<>>,
                         scan.total),
                   Entry("statement_endings", "compliant_statements", <<>>,
                         scan.correct)>>
                 \o (IF CompliancePasses(scan.correct, scan.total)
                     THEN <<Entry("statement_endings", "success", <<>>, 0)>>
                     ELSE <<Entry("statement_endings", "compliance_only",
                                  <<>>, 0)>>
                          \o (IF scan.issues # <<>>
                              THEN <<Entry("statement_endings", "violations",
                                           Take(scan.issues,
                                                SHOWN_STATEMENT_ISSUES),
                                           Len(scan.issues))>>
                              ELSE <<>>)))

----------------------------------------------------------------------------
(* The outcomes of the external tools *)

\* subprocess.run without timeout: the child exits with 0 or another code,
\* the call raises (the binary is missing, an I/O error), or the child never
\* exits and the call never returns.
RunOutcomes == {"exit0", "exit_nonzero", "launch_error", "never_exits"}

\* The numbers of tests `dotnet test --list-tests` may list.
TestCounts == {0, 1, 49, 50, 60}

\* check_test_coverage: the test run, whether TestResults holds an .xml file,
\* and the --list-tests call (a count, or how the call went wrong).
CoverageOutcomes ==
    {[run |-> r, xml |-> FALSE, list |-> "not_run"]
        : r \in {"exit_nonzero", "launch_error", "never_exits"}}
    \cup {[run |-> "exit0", xml |-> TRUE, list |-> "not_run"]}
    \cup {[run |-> "exit0", xml |-> FALSE, list |-> l]
        : l \in {"launch_error", "never_exits", "listed"}}

\* Total time printed by the test run, in tenths of a second.
TotalTimes == {10, 1034, 1035, 2000}

\* check_execution_time: mkdir/write_text of the temporary file, the build
\* call (no timeout), the test call (timeout=30) and the final rmtree.
LatencyOutcomes ==
    {[mkdir |-> "error", build |-> "not_run", test |-> "not_run"]}
    \cup {[mkdir |-> "ok", build |-> b, test |-> "not_run"]
        : b \in {"launch_error", "never_exits"}}
    \cup {[mkdir |-> "ok", build |-> "exited", test |-> t]
        : t \in {"launch_error", "timeout", "no_total_time", "total_time"}}

----------------------------------------------------------------------------
(* The checks' return values *)

CompilationResultLenient(o) ==
    CASE o = "exit0" -> [passed |-> TRUE, msg |-> "success"]
      [] o = "exit_nonzero" -> [passed |-> FALSE, msg |-> "build_output"]
      [] o = "launch_error" -> [passed |-> TRUE, msg |-> "exception"]

\* check_compilation, for an outcome under which subprocess.run returns or
\* raises.
CompilationResult(o) ==
    CASE o = "exit0" -> [passed |-> TRUE, msg |-> "success"]
      [] o = "exit_nonzero" -> [passed |-> FALSE, msg |-> "build_output"]
      [] o = "launch_error" -> [passed |-> FALSE, msg |-> "exception"]

\* `(len(test_files) / len(source_files)) * 100 >= REQUIRED_COVERAGE_PERCENT`,
\* with coverage_ratio 0 when there is no source file.
RatioReached(dir) ==
    LET sources == Len(Rglob(dir, "src", 1))
        tests == Len(Rglob(dir, "test", 1))
    IN  sources > 0 /\ 100 * tests >= REQUIRED_COVERAGE_PERCENT * sources

CoverageResultStrict(o, count, dir) ==
    CASE o.run = "launch_error" ->
            [passed |-> FALSE, msg |-> "exception", method |-> "none", n |-> 0]
      [] o.run = "exit_nonzero" ->
            [passed |-> FALSE, msg |-> "tests_failed", method |-> "none",
             n |-> 0]
      [] o.run = "exit0" /\ o.xml ->
            [passed |-> RatioReached(dir),
             msg |-> IF RatioReached(dir) THEN "success" ELSE "warning",
             method |-> "file-ratio",
             n |-> Len(Rglob(dir, "test", 1))]
      [] o.run = "exit0" /\ ~o.xml /\ o.list = "launch_error" ->
            [passed |-> FALSE, msg |-> "exception", method |-> "none", n |-> 0]
      [] o.run = "exit0" /\ ~o.xml /\ o.list = "listed" ->
            [passed |-> IF count >= MIN_TEST_COUNT THEN TRUE ELSE count > 0,
             msg |-> IF count >= MIN_TEST_COUNT THEN "success" ELSE "warning",
             method |-> "test-count",
             n |-> count]

\* check_test_coverage, for an outcome under which every call returns or
\* raises; count is the number of tests listed.
CoverageResult(o, count, dir) ==
    CASE o.run = "launch_error" ->
            [passed |-> FALSE, msg |-> "exception", method |-> "none", n |-> 0]
      [] o.run = "exit_nonzero" ->
            [passed |-> FALSE, msg |-> "tests_failed", method |-> "none",
             n |-> 0]
      [] o.run = "exit0" /\ o.xml ->
            [passed |-> TRUE,
             msg |-> IF RatioReached(dir) THEN "success" ELSE "warning",
             method |-> "file-ratio",
             n |-> Len(Rglob(dir, "test", 1))]
      [] o.run = "exit0" /\ ~o.xml /\ o.list = "launch_error" ->
            [passed |-> FALSE, msg |-> "exception", method |-> "none", n |-> 0]
      [] o.run = "exit0" /\ ~o.xml /\ o.list = "listed" ->
            [passed |-> IF count >= MIN_TEST_COUNT THEN TRUE ELSE count > 0,
             msg |-> IF count >= MIN_TEST_COUNT THEN "success" ELSE "warning",
             method |-> "test-count",
             n |-> count]

\* What check_test_coverage prints once the test run has exited with 0:
\* print_info("Coverage files found: ...") or print_info("Coverage report not
\* available, checking test count..."), then the message of its result r.
CoverageReport(o, r) ==
    (IF o.run # "exit0" THEN <<>>
     ELSE IF o.xml
          THEN <<Entry("test_coverage", "coverage_files_found", <<>>, 0)>>
          ELSE <<Entry("test_coverage", "report_not_available", <<>>, 0)>>)
        \o <<Entry("test_coverage", r.msg,
                   <<[file |-> r.method, line |-> 0, content |-> <<>>]>>,
                   r.n)>>

\* `estimated_api_time < MAX_EXECUTION_TIME_MS` for a total time given in
\* tenths of a second: (total / 69) * 1000 / 5 < 300.
EstimateBelowCeiling(tenths) ==
    tenths * 100 < MAX_EXECUTION_TIME_MS * CALLS_PER_TEST * ASSUMED_TEST_COUNT

LatencyResultUncaught(o, tenths) ==
    CASE o.test = "timeout" ->
            [passed |-> FALSE, msg |-> "uncaught", n |-> 0]
      [] o.mkdir = "error" \/ o.build = "launch_error"
         \/ o.test = "launch_error" ->
            [passed |-> TRUE, msg |-> "exception", n |-> 0]
      [] o.test = "total_time" ->
            [passed |-> TRUE,
             msg |-> IF EstimateBelowCeiling(tenths) THEN "success"
                     ELSE "warning",
             n |-> tenths]
      [] o.test = "no_total_time" ->
            [passed |-> TRUE, msg |-> "not_measured", n |-> 0]

LatencyResultBlocking(o, tenths) ==
    CASE o.mkdir = "error" \/ o.build = "launch_error"
         \/ o.test \in {"launch_error", "timeout"} ->
            [passed |-> TRUE, msg |-> "exception", n |-> 0]
      [] o.test = "total_time" ->
            [passed |-> TRUE,
             msg |-> IF EstimateBelowCeiling(tenths) THEN "success"
                     ELSE "warning",
             n |-> tenths]
      [] o.test = "no_total_time" ->
            [passed |-> FALSE, msg |-> "not_measured", n |-> 0]

\* check_execution_time, for an outcome under which every call returns or
\* raises.
LatencyResult(o, tenths) ==
    CASE o.mkdir = "error" \/ o.build = "launch_error"
         \/ o.test \in {"launch_error", "timeout"} ->
            [passed |-> TRUE, msg |-> "exception", n |-> 0]
      [] o.test = "total_time" ->
            [passed |-> TRUE,
             msg |-> IF EstimateBelowCeiling(tenths) THEN "success"
                     ELSE "warning",
             n |-> tenths]
      [] o.test = "no_total_time" ->
            [passed |-> TRUE, msg |-> "not_measured", n |-> 0]

----------------------------------------------------------------------------
(* run_all_verifications and main *)

StageOrder ==
    <<"compilation", "double_semicolons", "statement_endings",
      "test_coverage", "execution_time">>

StageIndex(name) == CHOOSE i \in 1..Len(StageOrder) : StageOrder[i] = name

AfterCheckAborting(name, passed) ==
    IF passed /\ StageIndex(name) < Len(StageOrder)
    THEN StageOrder[StageIndex(name) + 1]
    ELSE "summary"

AfterCheckSwapped(name, passed) ==
    CASE name = "compilation" -> "statement_endings"
      [] name = "statement_endings" -> "double_semicolons"
      [] name = "double_semicolons" -> "test_coverage"
      [] name = "test_coverage" -> "execution_time"
      [] name = "execution_time" -> "summary"

\* Where run_all_verifications goes once check `name` has returned `passed`:
\* the next assignment to results, or the summary after the last one.
AfterCheck(name, passed) ==
    IF StageIndex(name) < Len(StageOrder)
    THEN StageOrder[StageIndex(name) + 1]
    ELSE "summary"

\* results[name] = passed
Record(res, name, passed) == Append(res, [name |-> name, passed |-> passed])

AnyPassed(res) == \E i \in 1..Len(res) : res[i].passed

\* all(results.values())
AllPassed(res) == \A i \in 1..Len(res) : res[i].passed

\* check.replace('_', ' ').title()
Title(name) ==
    CASE name = "compilation" -> "Compilation"
      [] name = "double_semicolons" -> "Double Semicolons"
      [] name = "statement_endings" -> "Statement Endings"
      [] name = "test_coverage" -> "Test Coverage"
      [] name = "execution_time" -> "Execution Time"

\* The summary table: one line per item of results, in its order.
SummaryLines(res) ==
    [i \in 1..Len(res) |->
        [check |-> Title(res[i].name),
         status |-> IF res[i].passed THEN "PASSED" ELSE "FAILED"]]

\* sys.exit(0 if success else 1)
ExitStatus(v) == IF v = "passed" THEN 0 ELSE 1

PcValues ==
    {"start", "summary", "returned", "done"}
        \cup {StageOrder[i] : i \in 1..Len(StageOrder)}

\* The external tools are the same from run to run: in a run after the first
\* each call ends as the same call of the first run ended.  x is what the
\* next call of this run does.
Replays(x) ==
    IF previous = <<>> THEN TRUE
    ELSE IF Len(env) >= Len(previous[1].env) THEN FALSE
    ELSE previous[1].env[Len(env) + 1] = x

\* How a call `results[name] = check()` ends.  A check that returns records
\* its value and run_all_verifications goes on; an exception that leaves the
\* check is caught nowhere, so the interpreter prints the traceback and the
\* process ends with status 1.
CheckEnds(name, r, printed) ==
    IF r.msg = "uncaught"
    THEN /\ out' = Append(out, Entry(name, "traceback", <<>>, 0))
         /\ exitCode' = <<1>>
         /\ pc' = "done"
         /\ UNCHANGED results
    ELSE /\ results' = Record(results, name, r.passed)
         /\ out' = out \o printed
         /\ pc' = AfterCheck(name, r.passed)
         /\ UNCHANGED exitCode

\* No tool of the submission server has been called yet.
NoCall == [name |-> "none", args |-> <<>>, at |-> 0]

\* Nothing has been returned yet.
NoReply == [success |-> FALSE, error |-> <<"no call">>]

\* The submission server is another program: it is not running while the
\* script runs.
ServerNotStarted ==
    /\ db = <<>>
    /\ now = 0
    /\ calls = 0
    /\ call = NoCall
    /\ reply = NoReply
    /\ before = <<>>

MainExitsZero ==
    /\ pc = "start"
    /\ ~blocked
    /\ IF userbotDir
       THEN /\ pc' = StageOrder[1]
            /\ UNCHANGED <<out, exitCode>>
       ELSE /\ pc' = "done"
            /\ out' = Append(out, Entry("main", "directory_not_found", <<>>, 0))
            /\ exitCode' = <<0>>
    /\ UNCHANGED <<files, results, summary, verdict, blocked, userbotDir,
                   tempDir, env, previous>>
    /\ UNCHANGED storeVars

\* main() up to the call of run_all_verifications.
Main ==
    /\ pc = "start"
    /\ ~blocked
    /\ IF userbotDir
       THEN /\ pc' = StageOrder[1]
            /\ UNCHANGED <<out, exitCode>>
       ELSE /\ pc' = "done"
            /\ out' = Append(out, Entry("main", "directory_not_found", <<>>, 0))
            /\ exitCode' = <<1>>
    /\ UNCHANGED <<files, results, summary, verdict, blocked, userbotDir,
                   tempDir, env, previous>>
    /\ UNCHANGED storeVars

\* results['compilation'] = check_compilation()
CheckCompilation ==
    /\ pc = "compilation"
    /\ ~blocked
    /\ \E o \in RunOutcomes :
        /\ Replays(<<o>>)
        /\ IF o = "never_exits"
           THEN /\ blocked' = TRUE
                /\ UNCHANGED <<pc, results, out, exitCode, env>>
           ELSE LET r == CompilationResult(o)
                IN /\ CheckEnds("compilation", r,
                                <<Entry("compilation", r.msg, <<>>, 0)>>)
                   /\ env' = Append(env, <<o>>)
                   /\ UNCHANGED blocked
    /\ UNCHANGED <<files, summary, verdict, userbotDir, tempDir, previous>>
    /\ UNCHANGED storeVars

\* results['double_semicolons'] = check_double_semicolons()
CheckDoubleSemicolons ==
    /\ pc = "double_semicolons"
    /\ ~blocked
    /\ LET scan == ScanSemicolons(files, Rglob(files, "src", 1), 1)
       IN CheckEnds("double_semicolons",
                    [passed |-> SemicolonsPassed(scan), msg |-> "returned"],
                    SemicolonReport(scan))
    /\ UNCHANGED <<files, summary, verdict, blocked, userbotDir, tempDir,
                   env, previous>>
    /\ UNCHANGED storeVars

\* results['statement_endings'] = check_statement_endings()
CheckStatementEndings ==
    /\ pc = "statement_endings"
    /\ ~blocked
    /\ LET scan == StatementScan(files)
       IN CheckEnds("statement_endings",
                    [passed |-> StatementEndingsPassed(scan),
                     msg |-> "returned"],
                    StatementReport(scan))
    /\ UNCHANGED <<files, summary, verdict, blocked, userbotDir, tempDir,
                   env, previous>>
    /\ UNCHANGED storeVars

\* results['test_coverage'] = check_test_coverage()
CheckTestCoverage ==
    /\ pc = "test_coverage"
    /\ ~blocked
    /\ \E o \in CoverageOutcomes, count \in TestCounts :
        /\ o.list # "listed" => count = 0
        /\ Replays(<<o, count>>)
        /\ IF o.run = "never_exits" \/ o.list = "never_exits"
           THEN /\ blocked' = TRUE
                /\ UNCHANGED <<pc, results, out, exitCode, env>>
           ELSE LET r == CoverageResult(o, count, files)
                IN /\ CheckEnds("test_coverage", r, CoverageReport(o, r))
                   /\ env' = Append(env, <<o, count>>)
                   /\ UNCHANGED blocked
    /\ UNCHANGED <<files, summary, verdict, userbotDir, tempDir, previous>>
    /\ UNCHANGED storeVars

\* results['execution_time'] = check_execution_time()
CheckExecutionTime ==
    /\ pc = "execution_time"
    /\ ~blocked
    /\ \E o \in LatencyOutcomes, tenths \in TotalTimes, removed \in BOOLEAN :
        /\ o.test # "total_time" => tenths = 10
        /\ Replays(<<o, tenths>>)
        /\ IF o.build = "never_exits"
           THEN /\ blocked' = TRUE
                /\ tempDir' = TRUE
                /\ UNCHANGED <<pc, results, out, exitCode, env>>
           ELSE LET r == LatencyResult(o, tenths)
                IN /\ CheckEnds("execution_time", r,
                          <<Entry("execution_time", r.msg, <<>>, r.n)>>)
                   \* finally: rmtree(temp_dir, ignore_errors=True), which
                   \* may leave the directory behind without raising
                   /\ tempDir' = ((tempDir \/ o.mkdir = "ok") /\ ~removed)
                   /\ env' = Append(env, <<o, tenths>>)
                   /\ UNCHANGED blocked
    /\ UNCHANGED <<files, summary, verdict, userbotDir, previous>>
    /\ UNCHANGED storeVars

\* The summary of run_all_verifications and its return value.
Summarize ==
    /\ pc = "summary"
    /\ ~blocked
    /\ summary' = SummaryLines(results)
    /\ verdict' = IF AllPassed(results) THEN "passed" ELSE "failed"
    /\ pc' = "returned"
    /\ UNCHANGED <<files, results, out, exitCode, blocked, userbotDir,
                   tempDir, env, previous>>
    /\ UNCHANGED storeVars

\* sys.exit(0 if success else 1)
Exit ==
    /\ pc = "returned"
    /\ ~blocked
    /\ exitCode' = <<ExitStatus(verdict)>>
    /\ pc' = "done"
    /\ UNCHANGED <<files, results, out, summary, verdict, blocked, userbotDir,
                   tempDir, env, previous>>
    /\ UNCHANGED storeVars

Start(cat, maxTotal) ==
    /\ pc = "start"
    /\ userbotDir \in BOOLEAN
    /\ IF userbotDir
       THEN IsDirectory(files, cat, maxTotal)
       ELSE files = <<Absent, Absent>>
    /\ results = <<>>
    /\ out = <<>>
    /\ summary = <<>>
    /\ verdict = Unset
    /\ exitCode = NoExit
    /\ blocked = FALSE
    /\ tempDir = FALSE
    /\ env = <<>>
    /\ previous = <<>>
    /\ ServerNotStarted

Init == Start(PipeLines, PipeMaxLines)

Next ==
    \/ Main
    \/ CheckCompilation
    \/ CheckDoubleSemicolons
    \/ CheckStatementEndings
    \/ CheckTestCoverage
    \/ CheckExecutionTime
    \/ Summarize
    \/ Exit

Spec == Init /\ [][Next]_vars

\* The process is sequential: a step that can be taken is taken.
FairSpec == Spec /\ WF_vars(Next)

----------------------------------------------------------------------------
(* The script run again *)

\* Most runs of the script on one submission directory.
MaxRuns == 2

\* What a run that has ended leaves to compare: what its tools did, its
\* results, its verdict, its exit code, and whether temp_perf_test is left
\* on disk.
RunRecord ==
    [env |-> env, results |-> results, verdict |-> verdict,
     exitCode |-> exitCode, left |-> tempDir]

RerunKeepingResults ==
    /\ pc = "done"
    /\ ~blocked
    /\ Len(previous) < MaxRuns - 1
    /\ previous' = Append(previous, RunRecord)
    /\ pc' = "start"
    /\ out' = <<>>
    /\ summary' = <<>>
    /\ verdict' = Unset
    /\ exitCode' = NoExit
    /\ env' = <<>>
    /\ UNCHANGED <<files, results, blocked, userbotDir, tempDir>>
    /\ UNCHANGED storeVars

\* The script is started again on the same directory: a new process, whose
\* run_all_verifications starts from `results = {}`; the disk keeps what the
\* run before left on it.
Rerun ==
    /\ pc = "done"
    /\ ~blocked
    /\ Len(previous) < MaxRuns - 1
    /\ previous' = Append(previous, RunRecord)
    /\ pc' = "start"
    /\ results' = <<>>
    /\ out' = <<>>
    /\ summary' = <<>>
    /\ verdict' = Unset
    /\ exitCode' = NoExit
    /\ env' = <<>>
    /\ UNCHANGED <<files, blocked, userbotDir, tempDir>>
    /\ UNCHANGED storeVars

RerunNext ==
    \/ Next
    \/ Rerun

RerunSpec == Init /\ [][RerunNext]_vars

----------------------------------------------------------------------------
(* The two scans on their own *)

\* Most compliant and most non-compliant statements of a long file.
BulkMaxOk == 20

BulkMaxBad == 2

Repeat(line, n) == [i \in 1..n |-> line]

\* One source file of up to BulkMaxOk compliant statements followed by up to
\* BulkMaxBad statements without the marker, and no test file.
BulkDirectories ==
    {<<Readable(Repeat(LineOk, a) \o Repeat(LineBad, b)), Absent>>
        : a \in (BulkMaxOk - BulkMaxBad)..BulkMaxOk, b \in 0..BulkMaxBad}

\* The process as check_compilation has returned True: the two scans are next.
ScanInit ==
    /\ pc = "double_semicolons"
    /\ userbotDir = TRUE
    /\ \/ IsDirectory(files, ScanLines, ScanMaxLines)
       \/ files \in BulkDirectories
    /\ results = Record(<<>>, "compilation", TRUE)
    /\ out = <<Entry("compilation", "success", <<>>, 0)>>
    /\ summary = <<>>
    /\ verdict = Unset
    /\ exitCode = NoExit
    /\ blocked = FALSE
    /\ tempDir = FALSE
    /\ env = <<>>
    /\ previous = <<>>
    /\ ServerNotStarted

ScanNext ==
    \/ CheckDoubleSemicolons
    \/ CheckStatementEndings

ScanSpec == ScanInit /\ [][ScanNext]_vars

\* Most lines of a directory that holds comments.
CommentMaxLines == 3

\* The two scans over the directories that hold comments.
CommentScanInit ==
    /\ pc = "double_semicolons"
    /\ userbotDir = TRUE
    /\ IsDirectory(files, CommentLines, CommentMaxLines)
    /\ results = Record(<<>>, "compilation", TRUE)
    /\ out = <<Entry("compilation", "success", <<>>, 0)>>
    /\ summary = <<>>
    /\ verdict = Unset
    /\ exitCode = NoExit
    /\ blocked = FALSE
    /\ tempDir = FALSE
    /\ env = <<>>
    /\ previous = <<>>
    /\ ServerNotStarted

CommentScanSpec == CommentScanInit /\ [][ScanNext]_vars

----------------------------------------------------------------------------
(* Vocabulary of the properties *)

\* The order of the stages as the specification gives it.
ClaimedOrder ==
    <<"compilation", "double_semicolons", "statement_endings",
      "test_coverage", "execution_time">>

\* Stage k has been executed: its result is recorded.
Executed(k) == \E i \in 1..Len(results) : results[i].name = ClaimedOrder[k]

\* The recorded result of stage k is pass.
Passed(k) ==
    \E i \in 1..Len(results) :
        results[i].name = ClaimedOrder[k] /\ results[i].passed

\* Stage k printed message m.
Printed(k, m) ==
    \E i \in 1..Len(out) : out[i].check = ClaimedOrder[k] /\ out[i].msg = m

\* Stage k met an infrastructure failure: a call raised (launch error,
\* timeout) or a file could not be read.
InfraFailure(k) == Printed(k, "exception") \/ Printed(k, "could_not_read")

\* run_all_verifications has returned.
Completed == verdict # Unset

EveryResultPasses == \A i \in 1..Len(results) : results[i].passed

----------------------------------------------------------------------------
(* C1 *)

----------------------------------------------------------------------------
(* C2 *)

\* C2: a check failure never aborts the pipeline.  Whatever the judgments of
\* the earlier stages, the process at stage k has recorded exactly the k-1
\* results before it, and the summary is reached with, and lists, exactly
\* five results.
C2_FailureNeverAborts ==
    /\ \A k \in 1..5 : pc = ClaimedOrder[k] => Len(results) = k - 1
    /\ pc \in {"summary", "returned"} \/ Completed =>
        /\ Len(results) = 5
        /\ \A k \in 1..5 : Executed(k)
    /\ Completed => Len(summary) = 5

\* The build exits non-zero, both style checks and the coverage check fail,
\* and the report still holds five results.
C2_Witness ==
    /\ pc = "done"
    /\ Printed(1, "build_output")
    /\ ~Passed(1) /\ ~Passed(2) /\ ~Passed(3) /\ ~Passed(4)
    /\ Len(results) = 5
    /\ Len(summary) = 5

----------------------------------------------------------------------------
(* C3 *)

\* C3: the verdict is the conjunction of the recorded results, and the exit
\* code of a completed run is 0 if and only if every recorded result is
\* pass, and 1 otherwise.
C3_VerdictIsConjunction ==
    /\ Completed => (verdict = "passed" <=> EveryResultPasses)
    /\ Completed /\ pc = "done" =>
        /\ exitCode \in {<<0>>, <<1>>}
        /\ exitCode = <<0>> <=> EveryResultPasses

C3_Witness ==
    /\ pc = "done"
    /\ exitCode = <<1>>
    /\ Passed(1) /\ Passed(2) /\ ~Passed(3) /\ Passed(4) /\ Passed(5)

----------------------------------------------------------------------------
(* C4 *)

\* C4: the stages run in the order Build, no-adjacent-terminator,
\* trailing-marker, Coverage, Latency.  A stage starts only when the results
\* of all stages before it are recorded, the results and the printed messages
\* are in that order, and the summary lists the checks in that order.
C4_StagesInOrder ==
    /\ \A i \in 1..Len(results) : results[i].name = ClaimedOrder[i]
    /\ \A k \in 1..5 : pc = ClaimedOrder[k] => Len(results) = k - 1
    /\ \A i, j \in 1..Len(out) :
        /\ i < j
        /\ out[i].check # "main"
        /\ out[j].check # "main"
        => \E a, b \in 1..5 :
            /\ a <= b
            /\ out[i].check = ClaimedOrder[a]
            /\ out[j].check = ClaimedOrder[b]
    /\ Completed =>
        summary = [i \in 1..5 |->
                     [check |-> Title(ClaimedOrder[i]),
                      status |-> IF Passed(i) THEN "PASSED" ELSE "FAILED"]]

C4_Witness ==
    /\ pc = "done"
    /\ Len(summary) = 5
    /\ summary[2] = [check |-> "Double Semicolons", status |-> "PASSED"]
    /\ summary[3] = [check |-> "Statement Endings", status |-> "FAILED"]

----------------------------------------------------------------------------
(* C5 *)

\* C5 (as stated): the build subprocess is bounded by a timeout, so the build
\* stage always ends with a recorded result and every run of the pipeline
\* eventually reaches its completed state.
C5_EveryRunCompletes ==
    /\ (pc = "compilation") ~> Executed(1)
    /\ <>(pc = "done")

----------------------------------------------------------------------------
(* C6 *)

\* The state part of C6: failures are captured as data.  No outcome of a stage's external call
\* (non-zero exit, launch error, timeout, unreadable file) leaves the stage
\* as an exception: a stage that printed anything has recorded its result,
\* the process ends only after the summary, with the exit code computed from
\* the five results, and every run in which no child process waits forever
\* reaches that end.
C6_Captured ==
    /\ \A k \in 1..5, i \in 1..Len(out) :
        out[i].check = ClaimedOrder[k] =>
            Executed(k) /\ out[i].msg # "traceback"
    /\ pc = "done" /\ userbotDir =>
        /\ Completed
        /\ Len(results) = 5
        /\ Len(summary) = 5
        /\ exitCode = IF EveryResultPasses THEN <<0>> ELSE <<1>>
    /\ exitCode # NoExit => pc = "done"

----------------------------------------------------------------------------
(* C7 *)

\* The other four stages pass.
OthersPass == Passed(1) /\ Passed(2) /\ Passed(3) /\ Passed(5)

\* The message of the coverage stage that states its result.
CoverageEntry ==
    CHOOSE e \in {out[i] : i \in 1..Len(out)} :
        /\ e.check = "test_coverage"
        /\ e.msg \notin {"coverage_files_found", "report_not_available"}

----------------------------------------------------------------------------
(* Vocabulary of the trailing-marker properties *)

Marker == <<"/", "/">>

\* The message m of check_statement_endings.
StatementEntries(m) ==
    {out[i] : i \in {j \in 1..Len(out) :
        out[j].check = "statement_endings" /\ out[j].msg = m}}

\* The number the check states under message m, 0 when it does not print it.
StatementNumber(m) ==
    IF StatementEntries(m) = {} THEN 0
    ELSE (CHOOSE e \in StatementEntries(m) : TRUE).n

\* The violations the check lists, none when it prints no list.
ListedViolations ==
    IF StatementEntries("violations") = {} THEN <<>>
    ELSE (CHOOSE e \in StatementEntries("violations") : TRUE).items

\* The lines of the readable files: <<slot, line number>>.
ReadLines ==
    UNION {{<<s, n>> : n \in 1..Len(files[s].lines)} : s \in 1..Len(Slots)}

LineAt(p) == files[p[1]].lines[p[2]]

\* A complete statement in the specification's words: the trimmed line holds
\* a terminator or an arrow / accessor idiom, and is neither brace-only, nor
\* a for header, nor a method-chain continuation, nor a lambda prefix.
IsStatement(line) ==
    LET t == Strip(line)
    IN  /\ \/ Contains(t, <<";">>)
           \/ Contains(t, <<"=", ">">>)
           \/ Contains(t, <<"g", "e", "t", ";">>)
           \/ Contains(t, <<"s", "e", "t", ";">>)
        /\ t \notin {<<"{">>, <<"}">>, <<"{", ";">>, <<"}", ";">>}
        /\ ~StartsWith(t, <<"f", "o", "r", " ", "(">>)
        /\ ~StartsWith(t, <<".">>)
        /\ ~StartsWith(t,
               <<"a", "s", "y", "n", "c", " ", "(", ")", " ", "=", ">">>)

\* No line of the directory is a comment, opens or closes a block comment,
\* or is an attribute: every statement line qualifies.
PlainDirectory ==
    \A p \in ReadLines :
        LET t == Strip(LineAt(p))
        IN  /\ ~Contains(t, <<"/", "*">>)
            /\ ~Contains(t, <<"*", "/">>)
            /\ ~StartsWith(t, Marker)
            /\ ~(StartsWith(t, <<"[">>) /\ EndsWith(t, <<"]">>))

Statements == {p \in ReadLines : IsStatement(LineAt(p))}

Marked == {p \in Statements : EndsWith(Strip(LineAt(p)), Marker)}

Quoted == {p \in Statements \ Marked : Count(Strip(LineAt(p)), "\"") >= 2}

----------------------------------------------------------------------------
(* C8 *)

\* C8: the trailing-marker check passes if and only if it found no statement
\* or 100 * correct >= 95 * total, where total and correct are the numbers
\* of qualifying lines and of qualifying lines that end with the marker; so
\* it passes when there is no statement and when every statement is marked.
C8_PassesIffCompliant ==
    Executed(3) =>
        LET total == StatementNumber("total_statements")
            correct == StatementNumber("compliant_statements")
        IN  /\ Passed(3) <=> (total = 0 \/ 100 * correct >= 95 * total)
            /\ total = 0 <=> StatementEntries("no_statements") # {}
            /\ PlainDirectory =>
                /\ total = Cardinality(Statements)
                /\ correct = Cardinality(Marked)
            /\ Statements = {} => Passed(3)
            /\ PlainDirectory /\ Marked = Statements => Passed(3)

\* 19 of 20 statements end with the marker: exactly 95%, a pass.
C8_Witness ==
    /\ Executed(3)
    /\ Passed(3)
    /\ StatementNumber("total_statements") = 20
    /\ StatementNumber("compliant_statements") = 19

----------------------------------------------------------------------------
(* C9 *)

\* C9 (as stated): every run in which the trailing-marker check fails
\* reports at least one offending line.
C9_FailureListsOffender ==
    Executed(3) /\ ~Passed(3) => Len(ListedViolations) >= 1

----------------------------------------------------------------------------
(* C10 *)

\* C10 (as stated): when 100*K < 95*T the check fails and reports exactly the
\* T-K qualifying lines that do not end with the marker.
C10_ExactlyTheUnmarked ==
    LET total == StatementNumber("total_statements")
        correct == StatementNumber("compliant_statements")
    IN  Executed(3) /\ 100 * correct < 95 * total =>
            /\ ~Passed(3)
            /\ StatementNumber("violations") = total - correct
            /\ Len(ListedViolations) = total - correct

\* The slot whose file the check shows as f.
SlotShown(f) == CHOOSE s \in 1..Len(Slots) : Slots[s].shown = f

\* C10 (amended): when 100*K < 95*T the check fails, and the violations it
\* reports are exactly the qualifying lines that neither end with the marker
\* nor hold two or more quote characters, in file and line order, each with
\* its file, its 1-based line number in that file and its trimmed text; the
\* first 15 of them are listed.  There are at most T-K of them, and none
\* when every unmarked statement holds two quotes.
C10_ViolationsReported ==
    LET total == StatementNumber("total_statements")
        correct == StatementNumber("compliant_statements")
        found == StatementNumber("violations")
        listed == ListedViolations
        at(i) == <<SlotShown(listed[i].file), listed[i].line>>
    IN  Executed(3) /\ 100 * correct < 95 * total =>
            /\ ~Passed(3)
            /\ found <= total - correct
            /\ Len(listed) = Min(found, 15)
            /\ \A i \in 1..Len(listed) :
                /\ at(i) \in Statements \ (Marked \cup Quoted)
                /\ listed[i].content = Strip(LineAt(at(i)))
            /\ \A i, j \in 1..Len(listed) :
                i < j =>
                    \/ at(i)[1] < at(j)[1]
                    \/ at(i)[1] = at(j)[1] /\ at(i)[2] < at(j)[2]
            /\ PlainDirectory =>
                /\ found = Cardinality(Statements \ (Marked \cup Quoted))
                /\ total - correct - found = Cardinality(Quoted)

\* Scenario B: 18 of 20 statements are marked, compliance 90%; the check
\* fails and lists lines 19 and 20.
C10_Witness ==
    /\ Executed(3)
    /\ ~Passed(3)
    /\ StatementNumber("total_statements") = 20
    /\ StatementNumber("compliant_statements") = 18
    /\ Len(ListedViolations) = 2
    /\ ListedViolations[1].line = 19
    /\ ListedViolations[2].line = 20

----------------------------------------------------------------------------
(* Vocabulary of the comment properties *)

\* Whether a block comment is open after the characters of t from the i-th
\* on, read in order, when it is open or not before them: an opening marker
\* outside a comment opens one, a closing marker inside a comment closes it.
RECURSIVE OpenAfter(_, _, _)
OpenAfter(t, i, open) ==
    IF i > Len(t) THEN open
    ELSE IF ~open /\ i < Len(t) /\ t[i] = "/" /\ t[i + 1] = "*"
         THEN OpenAfter(t, i + 2, TRUE)
    ELSE IF open /\ i < Len(t) /\ t[i] = "*" /\ t[i + 1] = "/"
         THEN OpenAfter(t, i + 2, FALSE)
    ELSE OpenAfter(t, i + 1, open)

\* The characters of t from the i-th on that lie outside block comments.
RECURSIVE CodeOf(_, _, _)
CodeOf(t, i, open) ==
    IF i > Len(t) THEN <<>>
    ELSE IF ~open /\ i < Len(t) /\ t[i] = "/" /\ t[i + 1] = "*"
         THEN CodeOf(t, i + 2, TRUE)
    ELSE IF open /\ i < Len(t) /\ t[i] = "*" /\ t[i + 1] = "/"
         THEN CodeOf(t, i + 2, FALSE)
    ELSE IF open THEN CodeOf(t, i + 1, open)
    ELSE <<t[i]>> \o CodeOf(t, i + 1, open)

\* Line n of the file in slot s lies inside a block comment still open at
\* that line: an opening marker was seen on an earlier line of the file with
\* no closing marker after it.
RECURSIVE OpenBefore(_, _)
OpenBefore(s, n) ==
    IF n = 1 THEN FALSE
    ELSE OpenAfter(files[s].lines[n - 1], 1, OpenBefore(s, n - 1))

InsideOpenComment(p) == OpenBefore(p[1], p[2])

\* The line is a statement outside any open block comment: no comment is
\* open where it starts, and its text outside comments is a statement that
\* is neither a single-line comment nor an attribute.
OutsideStatement(p) ==
    LET code == Strip(CodeOf(LineAt(p), 1, FALSE))
    IN  /\ ~InsideOpenComment(p)
        /\ IsStatement(code)
        /\ ~StartsWith(code, Marker)
        /\ ~(StartsWith(code, <<"[">>) /\ EndsWith(code, <<"]">>))

\* What each line of the file in slot s, from line n on, does to the
\* trailing-marker scan that holds acc before it: whether it increments the
\* statement total, the count of compliant statements, the violations.
RECURSIVE LineSteps(_, _, _)
LineSteps(acc, s, n) ==
    IF n > Len(files[s].lines) THEN <<>>
    ELSE LET next == ScanLine(acc, s, n, files[s].lines[n])
         IN <<[counted |-> next.total > acc.total,
               correct |-> next.correct > acc.correct,
               violation |-> Len(next.issues) > Len(acc.issues)]>>
                \o LineSteps(next, s, n + 1)

\* What the lines of each file do to the scan, which starts every file with
\* no comment open.  (The formulas bind it once: \A steps \in {AllSteps}.)
AllSteps == [s \in 1..Len(Slots) |-> LineSteps(ScanStart, s, 1)]

\* Line p increments the statement total.
Counted(steps, p) == steps[p[1]][p[2]].counted

\* Line p yields a violation.
YieldsViolation(steps, p) == steps[p[1]][p[2]].violation

----------------------------------------------------------------------------
(* C11 *)

\* C11 (as stated): in the trailing-marker scan a line that lies inside a
\* block comment still open at that line never increments the statement
\* total and never yields a violation, and a line outside any open block
\* comment that is a statement is counted; the total the check states is the
\* number of lines it counted.
C11_CommentLinesExcluded ==
    Executed(3) =>
        \A steps \in {AllSteps} :
            /\ \A p \in ReadLines :
                /\ InsideOpenComment(p) =>
                    ~Counted(steps, p) /\ ~YieldsViolation(steps, p)
                /\ OutsideStatement(p) => Counted(steps, p)
            /\ StatementNumber("total_statements")
                   = Cardinality({p \in ReadLines : Counted(steps, p)})

----------------------------------------------------------------------------
(* Vocabulary of the per-line properties *)

\* The trimmed text ends with the two characters of the marker.
EndsInMarker(t) == Len(t) >= 2 /\ t[Len(t) - 1] = "/" /\ t[Len(t)] = "/"

\* The number of quote characters of the text.
QuoteCount(t) == Cardinality({i \in 1..Len(t) : t[i] = "\""})

\* A statement line outside any block comment: a statement outside any open
\* block comment no part of which lies in a block comment.
StatementOutside(p) ==
    OutsideStatement(p) /\ CodeOf(LineAt(p), 1, FALSE) = LineAt(p)

\* Line p increments the count of compliant statements.
CountedCorrect(steps, p) == steps[p[1]][p[2]].correct

\* The numbers the check states are the numbers of lines that incremented
\* them.
StatedNumbersAreIncrements(steps) ==
    /\ StatementNumber("total_statements")
           = Cardinality({p \in ReadLines : Counted(steps, p)})
    /\ StatementNumber("compliant_statements")
           = Cardinality({p \in ReadLines : CountedCorrect(steps, p)})

----------------------------------------------------------------------------
(* C12 *)

\* C12 (as stated): a statement line outside any block comment that ends
\* with the marker increments both total and correct; one that does not end
\* with the marker increments total only and is recorded as a violation.
C12_MarkerDecides ==
    Executed(3) =>
        \A steps \in {AllSteps} :
            \A p \in ReadLines :
                StatementOutside(p) =>
                    /\ Counted(steps, p)
                    /\ IF EndsInMarker(Strip(LineAt(p)))
                       THEN /\ CountedCorrect(steps, p)
                            /\ ~YieldsViolation(steps, p)
                       ELSE /\ ~CountedCorrect(steps, p)
                            /\ YieldsViolation(steps, p)

\* C12 (amended): a statement line outside any block comment that ends with
\* the marker increments both total and correct and is no violation; one
\* that does not end with the marker increments total only, and is recorded
\* as a violation exactly when it holds fewer than two quote characters.
\* The numbers the check states are these increments.
C12_MarkerDecidesUnlessQuoted ==
    Executed(3) =>
        \A steps \in {AllSteps} :
            /\ \A p \in ReadLines :
                StatementOutside(p) =>
                    /\ Counted(steps, p)
                    /\ IF EndsInMarker(Strip(LineAt(p)))
                       THEN /\ CountedCorrect(steps, p)
                            /\ ~YieldsViolation(steps, p)
                       ELSE /\ ~CountedCorrect(steps, p)
                            /\ YieldsViolation(steps, p)
                                   <=> QuoteCount(Strip(LineAt(p))) < 2
            /\ StatedNumbersAreIncrements(steps)

\* One file of a marked and an unmarked statement: 2 statements, 1 compliant,
\* and line 2 listed as the violation.
C12_Witness ==
    /\ Executed(3)
    /\ files[1] = Readable(<<LineOk, LineBad>>)
    /\ files[2] = Absent
    /\ StatementNumber("total_statements") = 2
    /\ StatementNumber("compliant_statements") = 1
    /\ Len(ListedViolations) = 1
    /\ ListedViolations[1].line = 2

----------------------------------------------------------------------------
(* C13 *)

\* C13: a statement line outside any block comment that does not end with
\* the marker and holds at least two quote characters is never recorded as a
\* violation and is never listed, but increments the statement total and not
\* the count of compliant statements; so with such a line the check states
\* fewer compliant statements than statements, a compliance rate below 100%.
C13_QuotedCountedNotReported ==
    Executed(3) =>
        \A steps \in {AllSteps} :
            LET quoted ==
                    {p \in ReadLines :
                        /\ StatementOutside(p)
                        /\ ~EndsInMarker(Strip(LineAt(p)))
                        /\ QuoteCount(Strip(LineAt(p))) >= 2}
            IN  /\ \A p \in quoted :
                    /\ Counted(steps, p)
                    /\ ~CountedCorrect(steps, p)
                    /\ ~YieldsViolation(steps, p)
                    /\ \A i \in 1..Len(ListedViolations) :
                        <<SlotShown(ListedViolations[i].file),
                          ListedViolations[i].line>> # p
                /\ StatedNumbersAreIncrements(steps)
                /\ quoted # {} =>
                    StatementNumber("total_statements")
                        - StatementNumber("compliant_statements")
                            >= Cardinality(quoted)

\* A marked statement and a quoted one: 2 statements, 1 compliant, the check
\* fails at 50% and lists no violation.
C13_Witness ==
    /\ Executed(3)
    /\ files[1] = Readable(<<LineOk, LineStr>>)
    /\ files[2] = Absent
    /\ StatementNumber("total_statements") = 2
    /\ StatementNumber("compliant_statements") = 1
    /\ ~Passed(3)
    /\ ListedViolations = <<>>

----------------------------------------------------------------------------
(* Vocabulary of the no-adjacent-terminator properties *)

\* The violations the no-adjacent-terminator check lists, none when it
\* prints no list.
SemicolonViolations ==
    LET es == {out[i] : i \in {j \in 1..Len(out) :
                  out[j].check = "double_semicolons"
                  /\ out[j].msg = "violations"}}
    IN  IF es = {} THEN <<>> ELSE (CHOOSE e \in es : TRUE).items

\* The lines of the files the check reads: the readable files of the source
\* project.
SourceLines == {p \in ReadLines : Slots[p[1]].root = "src"}

\* The line holds two adjacent terminators.
HasDoubleTerminator(line) ==
    \E i \in 1..(Len(line) - 1) : line[i] = ";" /\ line[i + 1] = ";"

\* A comment line in the specification's words: the trimmed text begins with
\* the single-line comment marker or with the block-comment marker.
CommentLine(line) ==
    LET t == Strip(line)
    IN  \/ Len(t) >= 2 /\ t[1] = "/" /\ t[2] = "/"
        \/ Len(t) >= 2 /\ t[1] = "/" /\ t[2] = "*"

\* The violations listed for line p.
ViolationsAt(p) ==
    {i \in 1..Len(SemicolonViolations) :
        /\ SemicolonViolations[i].file = Slots[p[1]].path
        /\ SemicolonViolations[i].line = p[2]}

----------------------------------------------------------------------------
(* C14 *)

\* C14 (as stated): the no-adjacent-terminator check reports exactly one
\* violation, carrying the 1-based line number, for every line of the files
\* it reads that contains `;;` and is not a comment line, and the check
\* fails if and only if it reported at least one violation.
C14_OneViolationPerLine ==
    Executed(2) =>
        /\ \A p \in SourceLines :
            HasDoubleTerminator(LineAt(p)) /\ ~CommentLine(LineAt(p)) =>
                Cardinality(ViolationsAt(p)) = 1
        /\ ~Passed(2) <=> Len(SemicolonViolations) >= 1

----------------------------------------------------------------------------
(* C15 *)

\* C15 (as stated): the no-adjacent-terminator check never flags a line
\* whose trimmed text begins with `//` or with `/*`, even when the line
\* contains `;;`.
C15_CommentLinesNeverFlagged ==
    Executed(2) =>
        \A p \in SourceLines :
            CommentLine(LineAt(p)) => ViolationsAt(p) = {}

----------------------------------------------------------------------------
(* Vocabulary of the coverage and latency properties *)

\* The method the coverage stage states with its result.
CoverageMethod == CoverageEntry.items[1].file

\* The coverage stage found machine-readable coverage artifacts.
ArtifactsFound == Printed(4, "coverage_files_found")

\* The message of the latency stage.
LatencyEntry ==
    CHOOSE e \in {out[i] : i \in 1..Len(out)} : e.check = "execution_time"

----------------------------------------------------------------------------
(* C16 *)

\* C16 (as stated): the coverage check reads the coverage report when
\* coverage artifacts exist, uses the ratio of test files to source files
\* only when no artifact exists, and uses the number of discovered tests
\* only when no artifact exists either.
C16_MethodByPreference ==
    Executed(4) =>
        /\ ArtifactsFound => CoverageMethod = "report"
        /\ CoverageMethod = "file-ratio" => ~ArtifactsFound
        /\ CoverageMethod = "test-count" => ~ArtifactsFound

----------------------------------------------------------------------------
(* C17 *)

\* C17 (as stated): when the build succeeds, both style checks report no
\* violation, no coverage report is found and at least 50 tests are
\* discovered, the pipeline passes and the coverage result states the method
\* test-count.
C17_ScenarioA ==
    /\ Completed
    /\ Passed(1)
    /\ ~Printed(2, "violations")
    /\ ~Printed(3, "violations")
    /\ Printed(4, "report_not_available")
    /\ CoverageEntry.msg \in {"success", "warning"}
    /\ CoverageEntry.n >= 50
    => /\ verdict = "passed"
       /\ CoverageMethod = "test-count"

----------------------------------------------------------------------------
(* C18 *)

\* C18 (as stated): when the test output carries a total time, the latency
\* check passes if (total / 69) * 1000 / 5 is below 300 ms and fails if it is
\* at or above 300 ms.  The total is in tenths of a second, so the estimate
\* is below 300 exactly when total * 20 < 300 * 69.
C18_CeilingDecides ==
    Executed(5) /\ LatencyEntry.msg \in {"success", "warning"} =>
        (Passed(5) <=> LatencyEntry.n * 20 < 300 * 69)

----------------------------------------------------------------------------
(* C19 *)

\* C19: when the test output carries no total time, the latency check
\* passes, and a run whose other four stages pass ends with verdict pass and
\* exit code 0.
C19_UnmeasuredPasses ==
    Printed(5, "not_measured") =>
        /\ Passed(5)
        /\ Completed /\ Passed(1) /\ Passed(2) /\ Passed(3) /\ Passed(4) =>
            verdict = "passed"
        /\ pc = "done" /\ Passed(1) /\ Passed(2) /\ Passed(3) /\ Passed(4) =>
            exitCode = <<0>>

C19_Witness ==
    /\ pc = "done"
    /\ Printed(5, "not_measured")
    /\ Passed(5)
    /\ verdict = "passed"
    /\ exitCode = <<0>>

----------------------------------------------------------------------------
(* C20 *)

\* C20: when the submission directory does not exist at startup the process
\* prints the error and exits with a non-zero code with no stage executed;
\* and nothing else ends the process before the stages run: a process that
\* has ended without the five results found no submission directory.
C20_ConfigErrorFailsFast ==
    /\ ~userbotDir /\ pc # "start" =>
        /\ pc = "done"
        /\ exitCode # NoExit /\ exitCode # <<0>>
        /\ results = <<>>
        /\ \A i \in 1..Len(out) : out[i].check = "main"
        /\ ~Completed
    /\ pc = "done" /\ Len(results) < 5 => ~userbotDir
    /\ userbotDir /\ pc # "start" => Executed(1) \/ pc = "compilation"

C20_Witness ==
    /\ pc = "done"
    /\ ~userbotDir
    /\ exitCode = <<1>>
    /\ results = <<>>
    /\ \E i \in 1..Len(out) : out[i].msg = "directory_not_found"

----------------------------------------------------------------------------
(* C28 *)

\* The directory that holds only the file of slot s.
Alone(s) == [i \in 1..Len(Slots) |-> IF i = s THEN files[i] ELSE Absent]

\* The file of slot s ends with a block comment left open.
EndsOpen(s) ==
    /\ files[s].state = "readable"
    /\ OpenBefore(s, Len(files[s].lines) + 1)

\* C28: the block-comment state of the trailing-marker scan does not leak
\* across files.  The scan of the directory counts, per file, what the scan
\* of that file alone counts, and lists the same violations in file order,
\* whether or not an earlier file ends inside a block comment; the numbers
\* the check states are these sums.
C28_CommentStateResetPerFile ==
    Executed(3) =>
        LET whole == StatementScan(files)
            first == StatementScan(Alone(1))
            second == StatementScan(Alone(2))
        IN  /\ whole.total = first.total + second.total
            /\ whole.correct = first.correct + second.correct
            /\ whole.issues = first.issues \o second.issues
            /\ StatementNumber("total_statements") = whole.total
            /\ StatementNumber("compliant_statements") = whole.correct

\* The first file is one unterminated opening marker, the second one
\* unmarked statement: that statement is counted and listed.
C28_Witness ==
    /\ Executed(3)
    /\ EndsOpen(1)
    /\ files[2] = Readable(<<LineBad>>)
    /\ StatementNumber("total_statements") = 1
    /\ Len(ListedViolations) = 1
    /\ ListedViolations[1].file = Slots[2].shown
    /\ ListedViolations[1].line = 1

----------------------------------------------------------------------------
(* C21 *)

MaxStore == 2

\* The most tool calls in one behaviour.
MaxCalls == 4

\* The last tick of the clock.
MaxNow == 2

\* datetime.now() has a finer grain than the "%Y%m%d%H%M%S" of the id.
TicksPerSecond == 2

\* list_submissions: limit: int = 10.
DefaultLimit == 10

\* team_name values of submit_bot.
Teams == {"Red", "blue"}

\* bot_version, description, repository_url and status of
\* update_submission: each is left out by one choice and supplied by
\* another, and a status outside the four is among those supplied.
UpdateArgs ==
    {<<<<>>, <<>>, <<>>, <<>>>>,
     <<<<"2.0">>, <<>>, <<>>, <<"approved">>>>,
     <<<<>>, <<"d">>, <<"u2">>, <<"archived">>>>}

\* team_name and status filters of list_submissions: left out, empty, and
\* written in another case than the records'.
ListFilters ==
    {<<<<>>, <<>>>>, <<<<"RED">>, <<>>>>, <<<<"">>, <<"Pending">>>>,
     <<<<"BLUE">>, <<"APPROVED">>>>}

\* limit values of list_submissions.
Limits == ((0 - 1)..MaxStore) \cup {DefaultLimit}

\* str.lower() on the strings of the model.
Lower(s) ==
    CASE s \in {"Red", "RED"} -> "red"
      [] s = "BLUE" -> "blue"
      [] s = "Pending" -> "pending"
      [] s = "APPROVED" -> "approved"
      [] OTHER -> s

\* datetime.now().strftime('%Y%m%d%H%M%S')
Second(t) == t \div TicksPerSecond

\* The keys of submissions_db.
Keys(d) == {d[i].submission_id : i \in 1..Len(d)}

\* The position of submissions_db[id] among the values.
Index(d, id) == CHOOSE i \in 1..Len(d) : d[i].submission_id = id

\* submissions_db[id]
Stored(d, id) == d[Index(d, id)]

\* submissions_db[id] = rec: a new key goes last, a key already there
\* keeps its place and loses its value.
Assign(d, id, rec) ==
    IF id \in Keys(d) THEN [d EXCEPT ![Index(d, id)] = rec]
    ELSE Append(d, rec)

PopAndAfter(d, id) == SubSeq(d, 1, Index(d, id) - 1)

\* submissions_db.pop(id), the dict that is left.
Pop(d, id) ==
    SubSeq(d, 1, Index(d, id) - 1) \o SubSeq(d, Index(d, id) + 1, Len(d))

NotFoundSucceeds(id) ==
    [success |-> TRUE, error |-> <<"not found", id>>]

\* {"success": False, "error": f"Submission '{submission_id}' not found"}
NotFound(id) ==
    [success |-> FALSE, error |-> <<"not found", id>>]

ProvidedOrBlank(old, arg) == IF arg # <<>> THEN arg[1] ELSE ""

\* if arg is not None: submission[field] = arg
Provided(old, arg) == IF arg # <<>> THEN arg[1] ELSE old

\* [s for s in submissions if s[field].lower() == arg.lower()]
Matching(s, field, arg) ==
    SelectSeq(s, LAMBDA r : Lower(r[field]) = Lower(arg))

\* if arg: submissions = [...]: None and "" do not filter.
Filtered(s, field, arg) ==
    IF arg = <<>> THEN s
    ELSE IF arg[1] = "" THEN s
    ELSE Matching(s, field, arg[1])

\* submissions[:limit]
SliceTo(s, limit) ==
    IF limit >= 0 THEN Take(s, limit)
    ELSE IF Len(s) + limit > 0 THEN SubSeq(s, 1, Len(s) + limit)
    ELSE <<>>

\* submit_bot: the id, the record, the store and the return value.  The
\* three datetime.now() of one call are taken as one reading t.
submit_bot(d, t, bot_name, team_name, bot_version, repository_url, description, language, framework) ==
    LET submission_id == <<Len(d) + 1, Second(t)>>
        submission ==
            [submission_id |-> submission_id,
             bot_name |-> bot_name,
             team_name |-> team_name,
             bot_version |-> bot_version,
             repository_url |-> repository_url,
             description |-> description,
             language |-> language,
             framework |-> framework,
             status |-> "pending",
             submitted_at |-> t,
             updated_at |-> t]
    IN  [db |-> Assign(d, submission_id, submission),
         reply |-> [success |-> TRUE,
                    submission_id |-> submission_id,
                    message |-> <<"submitted", bot_name, team_name>>,
                    submission |-> submission]]

\* get_submission
get_submission(d, id) ==
    IF id \notin Keys(d) THEN [db |-> d, reply |-> NotFound(id)]
    ELSE [db |-> d,
          reply |-> [success |-> TRUE, submission |-> Stored(d, id)]]

\* list_submissions
list_submissions(d, team_name, status, limit) ==
    LET submissions ==
            SliceTo(Filtered(Filtered(d, "team_name", team_name),
                             "status", status), limit)
    IN  [db |-> d,
         reply |-> [success |-> TRUE,
                    count |-> Len(submissions),
                    submissions |-> submissions]]

\* update_submission
update_submission(d, t, id, bot_version, description, repository_url, status) ==
    IF id \notin Keys(d) THEN [db |-> d, reply |-> NotFound(id)]
    ELSE
        LET old == Stored(d, id)
            submission ==
                [old EXCEPT
                    !.bot_version = Provided(old.bot_version, bot_version),
                    !.description = Provided(old.description, description),
                    !.repository_url =
                        Provided(old.repository_url, repository_url),
                    !.status = Provided(old.status, status),
                    !.updated_at = t]
        IN  [db |-> Assign(d, id, submission),
             reply |-> [success |-> TRUE,
                        message |-> <<"updated", id>>,
                        submission |-> submission]]

\* delete_submission
delete_submission(d, id) ==
    IF id \notin Keys(d) THEN [db |-> d, reply |-> NotFound(id)]
    ELSE [db |-> Pop(d, id),
          reply |-> [success |-> TRUE,
                     message |-> <<"deleted", id>>,
                     deleted_submission |-> Stored(d, id)]]

\* get_submission_status
get_submission_status(d, id) ==
    IF id \notin Keys(d) THEN [db |-> d, reply |-> NotFound(id)]
    ELSE
        LET submission == Stored(d, id)
        IN  [db |-> d,
             reply |-> [success |-> TRUE,
                        submission_id |-> id,
                        bot_name |-> submission.bot_name,
                        team_name |-> submission.team_name,
                        status |-> submission.status,
                        submitted_at |-> submission.submitted_at,
                        updated_at |-> submission.updated_at]]

\* An id no submit_bot call has returned.
UnknownId == <<0, 0>>

\* The ids a client asks about: those stored, those the last call found,
\* and one that was never issued.
AskedIds == Keys(db) \cup Keys(before) \cup {UnknownId}

\* A tool call has run: the store and the return value are r's.
Served(name, args, r) ==
    /\ calls' = calls + 1
    /\ call' = [name |-> name, args |-> args, at |-> now]
    /\ before' = db
    /\ db' = r.db
    /\ reply' = r.reply
    /\ UNCHANGED now
    /\ UNCHANGED scriptVars

\* A client calls submit_bot.
SubmitBot ==
    /\ calls < MaxCalls
    /\ Len(db) < MaxStore
    /\ \E team_name \in Teams :
          Served("submit_bot", <<"bot", team_name, "1.0", "u1", "", "", "">>,
                 submit_bot(db, now, "bot", team_name, "1.0", "u1", "", "",
                            ""))

\* A client calls get_submission.
GetSubmission ==
    /\ calls < MaxCalls
    /\ \E id \in AskedIds :
          Served("get_submission", <<id>>, get_submission(db, id))

\* A client calls list_submissions.
ListSubmissions ==
    /\ calls < MaxCalls
    /\ \E filters \in ListFilters, limit \in Limits :
          Served("list_submissions", <<filters[1], filters[2], limit>>,
                 list_submissions(db, filters[1], filters[2], limit))

\* A client calls update_submission.
UpdateSubmission ==
    /\ calls < MaxCalls
    /\ \E id \in AskedIds, a \in UpdateArgs :
          Served("update_submission", <<id, a[1], a[2], a[3], a[4]>>,
                 update_submission(db, now, id, a[1], a[2], a[3], a[4]))

\* A client calls delete_submission.
DeleteSubmission ==
    /\ calls < MaxCalls
    /\ \E id \in AskedIds :
          Served("delete_submission", <<id>>, delete_submission(db, id))

\* A client calls get_submission_status.
GetSubmissionStatus ==
    /\ calls < MaxCalls
    /\ \E id \in AskedIds :
          Served("get_submission_status", <<id>>,
                 get_submission_status(db, id))

\* Time passes between two calls.
Tick ==
    /\ now < MaxNow
    /\ now' = now + 1
    /\ UNCHANGED <<db, calls, call, reply, before>>
    /\ UNCHANGED scriptVars

\* The server has started: the store is empty, the script is not running.
StoreInit ==
    /\ pc = "start"
    /\ files = <<>>
    /\ results = <<>>
    /\ out = <<>>
    /\ summary = <<>>
    /\ verdict = Unset
    /\ exitCode = NoExit
    /\ blocked = FALSE
    /\ userbotDir = FALSE
    /\ tempDir = FALSE
    /\ env = <<>>
    /\ previous = <<>>
    /\ db = <<>>
    /\ now = 0
    /\ calls = 0
    /\ call = NoCall
    /\ reply = NoReply
    /\ before = <<>>

StoreNext ==
    \/ SubmitBot
    \/ GetSubmission
    \/ ListSubmissions
    \/ UpdateSubmission
    \/ DeleteSubmission
    \/ GetSubmissionStatus
    \/ Tick

StoreSpec == StoreInit /\ [][StoreNext]_vars

(***************************************************************************)
(* Vocabulary of the store properties                                      *)
(***************************************************************************)

\* The last call was the tool `name`.
Called(name) == call.name = name

\* The identifier the last call named.
AskedId == call.args[1]

\* The last call named an identifier and the store did not hold it.
AskedUnknown ==
    /\ call.name \in {"get_submission", "get_submission_status",
                      "update_submission", "delete_submission"}
    /\ AskedId \notin Keys(before)

\* The fields update_submission takes, in the order of its arguments.
Updatable == <<"bot_version", "description", "repository_url", "status">>

\* The fields update_submission has no argument for.
Fixed ==
    {"submission_id", "bot_name", "team_name", "language", "framework",
     "submitted_at"}

\* The records of d other than the one at position i, in order.
Others(d, i) == SubSeq(d, 1, i - 1) \o SubSeq(d, i + 1, Len(d))

\* A filter that was supplied: neither left out nor empty.
Supplied(arg) == arg # <<>> /\ arg[1] # ""

\* The record r passes the filter arg on field, whatever the letters' case.
Passes(r, field, arg) ==
    Supplied(arg) => Lower(r[field]) = Lower(arg[1])

\* The records of d that pass both filters, in insertion order.
Wanted(d, team_name, status) ==
    SelectSeq(d, LAMBDA r : /\ Passes(r, "team_name", team_name)
                            /\ Passes(r, "status", status))

(***************************************************************************)
(* C22                                                                     *)
(***************************************************************************)

\* C22: after any sequence of submit_bot, update_submission and
\* delete_submission calls every record of the store has a status among
\* pending, approved, rejected and testing.
C22_StatusAmongFour ==
    \A i \in 1..Len(db) :
        db[i].status \in {"pending", "approved", "rejected", "testing"}

(***************************************************************************)
(* C23                                                                     *)
(***************************************************************************)

\* C23: get_submission, get_submission_status, update_submission and
\* delete_submission called with an identifier the store does not hold
\* return an error result with success false, and the store is as it was.
C23_UnknownIdNotFound ==
    AskedUnknown =>
        /\ reply.success = FALSE
        /\ DOMAIN reply = {"success", "error"}
        /\ db = before

\* An update with a new status names an identifier that a store of
\* one record does not hold.
C23_Witness ==
    /\ Called("update_submission")
    /\ AskedUnknown
    /\ Len(before) = 1
    /\ call.args[5] = <<"approved">>
    /\ reply.success = FALSE

(***************************************************************************)
(* C24                                                                     *)
(***************************************************************************)

\* C24: update_submission on an identifier the store holds leaves the keys
\* of the store, every other record, and the record's submission_id,
\* bot_name, team_name, language, framework and submitted_at as they were;
\* of bot_version, description, repository_url and status only those
\* supplied may change.
C24_UpdateFrame ==
    (Called("update_submission") /\ AskedId \in Keys(before)) =>
        LET i == Index(before, AskedId)
        IN  /\ Len(db) = Len(before)
            /\ [j \in 1..Len(db) |-> db[j].submission_id]
                   = [j \in 1..Len(before) |-> before[j].submission_id]
            /\ Others(db, i) = Others(before, i)
            /\ \A f \in Fixed : db[i][f] = before[i][f]
            /\ \A k \in 1..Len(Updatable) :
                  call.args[k + 1] = <<>> =>
                      db[i][Updatable[k]] = before[i][Updatable[k]]
            /\ DOMAIN db[i] = DOMAIN before[i]

\* The second of two records gets a new version and a new status, and
\* nothing else, at a later tick than its submission.
C24_Witness ==
    /\ Called("update_submission")
    /\ Len(before) = 2
    /\ AskedId = before[2].submission_id
    /\ call.args[2] = <<"2.0">>
    /\ call.args[3] = <<>> /\ call.args[4] = <<>>
    /\ call.args[5] = <<"approved">>
    /\ db[2].status = "approved"
    /\ db[2].bot_version = "2.0"
    /\ db[2].description = before[2].description
    /\ db[2].updated_at > before[2].updated_at
    /\ db[1] = before[1]

(***************************************************************************)
(* C25                                                                     *)
(***************************************************************************)

\* C25: list_submissions never returns more than `limit` records, whatever
\* the integer limit and the store (a negative limit admits none): the
\* records returned are the first ones, in insertion order, whose team_name
\* and status equal the supplied filters whatever the letters' case, and
\* count is the number of records returned.
C25_FirstMatchesUpToLimit ==
    Called("list_submissions") =>
        LET limit == call.args[3]
            wanted == Wanted(before, call.args[1], call.args[2])
        IN  /\ Len(reply.submissions) <= (IF limit >= 0 THEN limit ELSE 0)
            /\ reply.submissions = SubSeq(wanted, 1, Len(reply.submissions))
            /\ \/ Len(reply.submissions) = limit
               \/ Len(reply.submissions) = Len(wanted)
               \/ limit < 0
            /\ reply.count = Len(reply.submissions)

(***************************************************************************)
(* C26                                                                     *)
(***************************************************************************)

\* The last call was a delete_submission that succeeded.
Deleted == Called("delete_submission") /\ reply.success

\* C26: a delete_submission that succeeds returns the record the store
\* held, removes that identifier and no other and leaves the other records
\* as they were; a get_submission of the identifier issued next returns
\* not-found.
C26_DeleteRemovesExactlyOne ==
    /\ [](Deleted =>
            /\ AskedId \in Keys(before)
            /\ reply.deleted_submission = Stored(before, AskedId)
            /\ Keys(db) = Keys(before) \ {AskedId}
            /\ db = Others(before, Index(before, AskedId)))
    /\ [][(/\ Deleted
           /\ calls' = calls + 1
           /\ call'.name = "get_submission"
           /\ call'.args[1] = AskedId)
          => (reply'.success = FALSE /\ db' = db)]_vars

\* The first of two records is deleted and the second is the store.
C26_Witness ==
    /\ Deleted
    /\ Len(before) = 2
    /\ AskedId = before[1].submission_id
    /\ reply.deleted_submission = before[1]
    /\ db = <<before[2]>>

(***************************************************************************)
(* C27                                                                     *)
(***************************************************************************)

\* C27: submit_bot never overwrites a record: after any interleaving of
\* submit_bot and delete_submission calls, several in one clock second
\* included, the identifier returned was not a key before the call, the
\* store has one record more, and every record stored before is still
\* retrievable and as it was.
C27_SubmitNeverOverwrites ==
    Called("submit_bot") =>
        /\ reply.submission_id \notin Keys(before)
        /\ Len(db) = Len(before) + 1
        /\ \A i \in 1..Len(before) :
              /\ before[i].submission_id \in Keys(db)
              /\ Stored(db, before[i].submission_id) = before[i]

====
